---- MODULE Spec2Model ----
(***************************************************************************)
(* A model of source-probe.py: the header/source utility analyser.         *)
(*                                                                         *)
(* Four specifications share the module:                                   *)
(*   SpecClosure  Source.find_used_headers run step by step, one frame of  *)
(*                the recursion per stack entry (FairClosure adds the      *)
(*                fairness of a running interpreter);                      *)
(*   SpecReport   main()'s analysis loop: Source.utility, Header.utility;  *)
(*   SpecRead     Source.read and Header.read on a raw file text;          *)
(*   SpecTags     Header.create_tags and Tag.parse_ctag on a tags file.    *)
(***************************************************************************)
EXTENDS Integers, Sequences, FiniteSets, TLC

VARIABLES
    headers,        \* filenames of the Header objects of the run (main: headers)
    sources,        \* filenames of the Source objects of the run (main: sources)
    include_lst,    \* file -> names found in its #include directives
    tag_set,        \* file -> its tag_set
    pc,             \* position of the running program
    stack,          \* call stack of find_used_headers, innermost frame last
    result,         \* value returned by the outermost find_used_headers call
    calls,          \* history: the recursive calls made so far
    returns,        \* history: the calls that returned so far
    claimed,        \* history: headers that were in the used_set of some frame
    analysis_files, \* main: the analysis_files still to be reported on
    report,         \* file -> the utility_lst of its report (a set of rows)
    printed,        \* the rows of the latest report in the order printed
    raw,            \* text of the file being read
    rd,             \* the object filled in by read()
    tagfile,        \* lines of the tags file written by ctags
    hdr             \* the Header filled in by create_tags()

fsVars      == <<headers, sources, include_lst, tag_set>>
closureVars == <<pc, stack, result, calls, returns, claimed>>
reportVars  == <<analysis_files, report, printed>>
readVars    == <<raw, rd>>
tagVars     == <<tagfile, hdr>>
vars == <<headers, sources, include_lst, tag_set, pc, stack, result, calls,
          returns, claimed, analysis_files, report, printed, raw, rd, tagfile, hdr>>

None   == "none"         \* None where the other values are strings or sets
NoText == <<"None">>     \* None where the other values are texts

(***************************************************************************)
(* Bounds and the finite universes the inputs are drawn from.              *)
(***************************************************************************)
SortedHeaderNames == <<"a.h", "b.h", "c.h">>
SortedSourceNames == <<"x.c", "y.c">>
HeaderNames == {SortedHeaderNames[i] : i \in DOMAIN SortedHeaderNames}
SourceNames == {SortedSourceNames[i] : i \in DOMAIN SortedSourceNames}
IncNames    == HeaderNames
Tags        == {"FOO", "BAR"}
MaxChunks   == 5        \* most lexemes in the text of a file that is read
MaxLines    == 3        \* most lines in a tags file
MaxInc      == 2        \* most names in one include list

IncLists == {L \in SUBSET IncNames : Cardinality(L) <= MaxInc}

(***************************************************************************)
(* Source.find_used_headers, lines 75-90.  include_lst is used by the code *)
(* only through `in` and truthiness, so a list is modelled by the set of   *)
(* its elements.  Header objects are identified by their filename: main()  *)
(* builds one Header per element of a set of paths.                        *)
(***************************************************************************)

\* line 79 without the restriction to start_set
UsedSetAnyHeader(start_lst, start_set) == {h \in headers : h \in start_lst}

\* line 79: used_set = set([h for h in start_set if h.filename in start_lst])
UsedSet(start_lst, start_set) == {h \in start_set : h \in start_lst}

\* line 82: remaining_set = start_set - used_set
RemainingSet(start_set, used_set) == start_set \ used_set

\* line 86 with = in place of |=
AccumulateOverwrite(parent_set, ret) == ret

\* line 86: parent_set |= self.find_used_headers(...)
Accumulate(parent_set, ret) == parent_set \cup ret

\* line 88 left out
ShrinkNone(remaining_set, parent_set) == remaining_set

\* line 88: remaining_set = remaining_set - parent_set
Shrink(remaining_set, parent_set) == remaining_set \ parent_set

\* line 90 returning used_set alone
ReturnUsedOnly(used_set, parent_set) == used_set

\* line 90: return used_set | parent_set
ReturnSet(used_set, parent_set) == used_set \cup parent_set

\* lines 79-82: the locals of a fresh activation; todo is the part of
\* used_set the for loop of line 84 has not reached yet
NewFrame(owner, start_lst, start_set) ==
    LET used == UsedSet(start_lst, start_set)
    IN  [owner     |-> owner,
         lst       |-> start_lst,
         start     |-> start_set,
         used      |-> used,
         todo      |-> used,
         parent    |-> {},
         remaining |-> RemainingSet(start_set, used)]

Top == stack[Len(stack)]

SetTop(f) == [stack EXCEPT ![Len(stack)] = f]

\* lines 97-98 (and 207): the outermost call, on the headers of the run
Call ==
    /\ pc = "idle"
    /\ \E s \in sources :
         LET f == NewFrame(s, include_lst[s], headers)
         IN  /\ stack' = <<f>>
             /\ claimed' = f.used
    /\ pc' = "running"
    /\ UNCHANGED <<result, calls, returns>>
    /\ UNCHANGED <<fsVars, reportVars, readVars, tagVars>>

\* lines 84-87: the loop reaches h, whose include list is not empty
LoopRecurse ==
    /\ pc = "running"
    /\ Len(stack) > 0
    /\ \E h \in Top.todo :
         /\ include_lst[h] # {}
         /\ LET f == NewFrame(h, include_lst[h], Top.remaining)
            IN  /\ stack' = Append(SetTop([Top EXCEPT !.todo = @ \ {h}]), f)
                /\ calls' = Append(calls, [header   |-> h,
                                           universe |-> f.start,
                                           caller   |-> Top.start,
                                           claimed  |-> claimed])
                /\ claimed' = claimed \cup f.used
    /\ UNCHANGED <<pc, result, returns>>
    /\ UNCHANGED <<fsVars, reportVars, readVars, tagVars>>

\* lines 84-85: the loop reaches h, whose include list is empty
LoopSkip ==
    /\ pc = "running"
    /\ Len(stack) > 0
    /\ \E h \in Top.todo :
         /\ include_lst[h] = {}
         /\ stack' = SetTop([Top EXCEPT !.todo = @ \ {h}])
    /\ UNCHANGED <<pc, result, calls, returns, claimed>>
    /\ UNCHANGED <<fsVars, reportVars, readVars, tagVars>>

\* line 90 of a recursive activation, then lines 86-88 of its caller
ReturnInner ==
    /\ pc = "running"
    /\ Len(stack) > 1
    /\ Top.todo = {}
    /\ LET ret    == ReturnSet(Top.used, Top.parent)
           caller == stack[Len(stack) - 1]
           parent == Accumulate(caller.parent, ret)
       IN  /\ stack' = [SubSeq(stack, 1, Len(stack) - 1)
                          EXCEPT ![Len(stack) - 1] =
                            [caller EXCEPT !.parent = parent,
                                           !.remaining = Shrink(@, parent)]]
           /\ returns' = Append(returns, [owner |-> Top.owner,
                                          lst   |-> Top.lst,
                                          start |-> Top.start,
                                          ret   |-> ret])
    /\ UNCHANGED <<pc, result, calls, claimed>>
    /\ UNCHANGED <<fsVars, reportVars, readVars, tagVars>>

\* line 90 of the outermost activation
ReturnOuter ==
    /\ pc = "running"
    /\ Len(stack) = 1
    /\ Top.todo = {}
    /\ LET ret == ReturnSet(Top.used, Top.parent)
       IN  /\ result' = ret
           /\ returns' = Append(returns, [owner |-> Top.owner,
                                          lst   |-> Top.lst,
                                          start |-> Top.start,
                                          ret   |-> ret])
    /\ stack' = <<>>
    /\ pc' = "done"
    /\ UNCHANGED <<calls, claimed>>
    /\ UNCHANGED <<fsVars, reportVars, readVars, tagVars>>

\* the state before anything of the other specifications has run
IdleReport == analysis_files = << >> /\ report = << >> /\ printed = << >>
IdleRead   == raw = << >> /\ rd = None
IdleTags   == tagfile = << >> /\ hdr = None
IdleClosure ==
    /\ pc = "idle"
    /\ stack = << >>
    /\ result = None
    /\ calls = << >>
    /\ returns = << >>
    /\ claimed = {}

\* main, lines 411-438: at least one header; every include list is whatever
\* the files contain
InitClosure ==
    /\ headers \in (SUBSET HeaderNames) \ {{}}
    /\ sources = {"x.c"}
    /\ include_lst \in [headers \cup sources -> IncLists]
    /\ tag_set = [f \in headers \cup sources |-> {}]
    /\ IdleClosure
    /\ IdleReport
    /\ IdleRead
    /\ IdleTags

NextClosure ==
    \/ Call
    \/ LoopRecurse
    \/ LoopSkip
    \/ ReturnInner
    \/ ReturnOuter

SpecClosure == InitClosure /\ [][NextClosure]_vars

\* a running interpreter takes the next step of the call
FairClosure == SpecClosure /\ WF_vars(NextClosure)

(***************************************************************************)
(* The headers of universe reachable from the names of start_lst by chains *)
(* of include names that stay inside universe.                             *)
(***************************************************************************)
RECURSIVE ReachFrom(_, _)
ReachFrom(S, universe) ==
    LET nxt == S \cup {h \in universe : \E g \in S : h \in include_lst[g]}
    IN  IF nxt = S THEN S ELSE ReachFrom(nxt, universe)

Reach(start_lst, universe) ==
    ReachFrom({h \in universe : h \in start_lst}, universe)

(***************************************************************************)
(* find_used_headers as a function.  The for loop of line 84 enumerates a  *)
(* set, in an order the language does not fix: FindUsedHeaders is the set  *)
(* of the values the call can return, one for every enumeration order.     *)
(***************************************************************************)
RECURSIVE FindUsedHeaders(_, _), LoopOver(_, _, _)

\* lines 84-88: the values parent_set can have when the loop is over
LoopOver(todo, parent_set, remaining_set) ==
    IF todo = {} THEN {parent_set}
    ELSE UNION {
           IF include_lst[h] # {}
           THEN UNION { LET p == Accumulate(parent_set, r)
                        IN  LoopOver(todo \ {h}, p, Shrink(remaining_set, p)) :
                        r \in FindUsedHeaders(include_lst[h], remaining_set) }
           ELSE LoopOver(todo \ {h}, parent_set, remaining_set) :
           h \in todo }

\* lines 79-90
FindUsedHeaders(start_lst, start_set) ==
    LET used == UsedSet(start_lst, start_set)
    IN  { ReturnSet(used, p) :
          p \in LoopOver(used, {}, RemainingSet(start_set, used)) }

\* lines 206-211 matching only the sources that name the header themselves
FindUsedSourcesDirect(self, header_set, source_set) ==
    { {s \in source_set : self \in include_lst[s]} }

\* lines 203-213, Header.find_used_sources: the values it can return
FindUsedSources(self, header_set, source_set) ==
    { {s \in source_set : \E sh \in c[s] : self = sh} :
      c \in {d \in [source_set -> SUBSET header_set] :
               \A s \in source_set :
                  d[s] \in FindUsedHeaders(include_lst[s], header_set)} }

(***************************************************************************)
(* Source.utility (lines 93-146) and Header.utility (lines 215-268).  A    *)
(* utility is the float len(a) / len(b); it is kept as the fraction        *)
(* [num, den], and the 0 of the ZeroDivisionError handler as 0/1.          *)
(***************************************************************************)

\* lines 110, 232 without the intersection
SharedTagSetWhole(tags, used_tag_set) == tags

\* lines 110, 232: h_tag_set = h.tag_set & used_tag_set
SharedTagSet(tags, used_tag_set) == tags \cap used_tag_set

\* lines 117-120, 239-242
Utility(shared, used_tag_set) ==
    IF Cardinality(used_tag_set) = 0
    THEN [num |-> 0, den |-> 1]
    ELSE [num |-> Cardinality(shared), den |-> Cardinality(used_tag_set)]

\* lines 112-115
SourceRowType(self, h) == IF h \in include_lst[self] THEN "direct" ELSE ""

\* lines 234-237 with the two files swapped
HeaderRowTypeSwapped(self, s) == IF s \in include_lst[self] THEN "direct" ELSE ""

\* lines 234-237
HeaderRowType(self, s) == IF self \in include_lst[s] THEN "direct" ELSE ""

\* lines 125-130, 247-252; taglist is the set of the names joined
Entry(filename, type, shared, used_tag_set) ==
    [filename |-> filename,
     type     |-> type,
     utility  |-> Utility(shared, used_tag_set),
     taglist  |-> shared]

\* a.utility > b.utility
Greater(a, b) == a.utility.num * b.utility.den > b.utility.num * a.utility.den

\* lines 133-134, 255-256: sorted(utility_lst, key=utility, reverse=True) of
\* a list built by enumerating a set: every order with descending utility
SortedUtilityLsts(utility_lst) ==
    { q \in [1..Cardinality(utility_lst) -> utility_lst] :
        /\ \A i, j \in DOMAIN q : i # j => q[i] # q[j]
        /\ \A i, j \in DOMAIN q : i < j => ~Greater(q[j], q[i]) }

\* lines 139-146, 261-268: one printed line per item
PrintedLine(item) ==
    <<item.filename, item.type,
      IF item.utility.num = 0 THEN "-" ELSE item.utility, item.taglist>>

UnionOf(f, S) == UNION {f[x] : x \in S}

\* lines 93-146
SourceUtility(self) ==
    \E used_header_set \in FindUsedHeaders(include_lst[self], headers) :
      LET header_tag_set == UnionOf(tag_set, used_header_set)
          used_tag_set   == header_tag_set \cap tag_set[self]
          utility_lst    ==
            { Entry(h, SourceRowType(self, h),
                    SharedTagSet(tag_set[h], used_tag_set), used_tag_set) :
              h \in used_header_set }
      IN  /\ report' = (self :> utility_lst) @@ report
          /\ \E q \in SortedUtilityLsts(utility_lst) :
               printed' = [i \in DOMAIN q |-> PrintedLine(q[i])]

\* lines 215-268
HeaderUtility(self) ==
    \E used_source_set \in FindUsedSources(self, headers, sources) :
      LET source_tag_set == UnionOf(tag_set, used_source_set)
          used_tag_set   == source_tag_set \cap tag_set[self]
          utility_lst    ==
            { Entry(s, HeaderRowType(self, s),
                    SharedTagSet(tag_set[s], used_tag_set), used_tag_set) :
              s \in used_source_set }
      IN  /\ report' = (self :> utility_lst) @@ report
          /\ \E q \in SortedUtilityLsts(utility_lst) :
               printed' = [i \in DOMAIN q |-> PrintedLine(q[i])]

\* main, lines 440-442
AnalyzeSource ==
    /\ pc = "analysis"
    /\ analysis_files # << >>
    /\ Head(analysis_files) \in sources
    /\ SourceUtility(Head(analysis_files))
    /\ analysis_files' = Tail(analysis_files)
    /\ UNCHANGED pc
    /\ UNCHANGED <<fsVars, stack, result, calls, returns, claimed, readVars,
                   tagVars>>

\* main, lines 440-444
AnalyzeHeader ==
    /\ pc = "analysis"
    /\ analysis_files # << >>
    /\ Head(analysis_files) \in headers
    /\ HeaderUtility(Head(analysis_files))
    /\ analysis_files' = Tail(analysis_files)
    /\ UNCHANGED pc
    /\ UNCHANGED <<fsVars, stack, result, calls, returns, claimed, readVars,
                   tagVars>>

\* main, line 446
Exit ==
    /\ pc = "analysis"
    /\ analysis_files = << >>
    /\ pc' = "exit"
    /\ UNCHANGED <<fsVars, stack, result, calls, returns, claimed, reportVars,
                   readVars, tagVars>>

\* filter_files, lines 354-357: the sorted list of a set of paths
Sorted(order, S) == SelectSeq(order, LAMBDA f : f \in S)

\* one tag set per file for the runs that vary the include lists
FixedTags ==
    [f \in HeaderNames \cup SourceNames |->
        CASE f = "x.c" -> {"FOO"}
          [] f = "y.c" -> {"FOO", "BAR"}
          [] f = "a.h" -> {"FOO"}
          [] f = "b.h" -> {"BAR"}
          [] OTHER     -> {}]

\* one set of include lists for the runs that vary the tag sets: x.c
\* includes a.h, which includes b.h; y.c includes b.h and c.h
FixedIncludes ==
    [f \in HeaderNames \cup SourceNames |->
        CASE f = "x.c" -> {"a.h"}
          [] f = "y.c" -> {"b.h", "c.h"}
          [] f = "a.h" -> {"b.h"}
          [] OTHER     -> {}]

\* main, lines 403-438, with every file of the run in the analysis set:
\* the sources in sorted order, then the headers in sorted order
InitReport ==
    /\ sources = SourceNames
    /\ \/ /\ headers \in (SUBSET HeaderNames) \ {{}}
          /\ include_lst \in [headers \cup sources -> IncLists]
          /\ tag_set = [f \in headers \cup sources |-> FixedTags[f]]
       \/ /\ headers = HeaderNames
          /\ include_lst = FixedIncludes
          /\ tag_set \in [headers \cup sources -> SUBSET Tags]
    /\ analysis_files = Sorted(SortedSourceNames, sources)
                          \o Sorted(SortedHeaderNames, headers)
    /\ pc = "analysis"
    /\ stack = << >>
    /\ result = None
    /\ calls = << >>
    /\ returns = << >>
    /\ claimed = {}
    /\ report = << >>
    /\ printed = << >>
    /\ IdleRead
    /\ IdleTags

NextReport ==
    \/ AnalyzeSource
    \/ AnalyzeHeader
    \/ Exit

SpecReport == InitReport /\ [][NextReport]_vars

(***************************************************************************)
(* Source.read (lines 54-73) and Header.read (lines 159-171).  A text is a *)
(* sequence of one-character strings.                                      *)
(***************************************************************************)
WordChars == {"i", "n", "c", "l", "u", "d", "e", "x", "h", "f", "o",
              "B", "A", "R"}

\* the code points of the characters the texts are made of
Ascii ==
    [c \in WordChars \cup {"\n", " ", "\"", "#", "*", ".", "/"} |->
        CASE c = "\n" -> 10  [] c = " " -> 32   [] c = "\"" -> 34
          [] c = "#" -> 35   [] c = "*" -> 42   [] c = "." -> 46
          [] c = "/" -> 47   [] c = "A" -> 65   [] c = "B" -> 66
          [] c = "R" -> 82   [] c = "c" -> 99   [] c = "d" -> 100
          [] c = "e" -> 101  [] c = "f" -> 102  [] c = "h" -> 104
          [] c = "i" -> 105  [] c = "l" -> 108  [] c = "n" -> 110
          [] c = "o" -> 111  [] c = "u" -> 117  [] OTHER -> 120]

Chars    == DOMAIN Ascii
Word     == WordChars                   \* \w
Space    == {" ", "\n"}                 \* \s
Open     == {"\"", "<"}                 \* ["<]
Close    == {"\"", ">"}                 \* [">]
NameChar == Word \cup {"-", "."}        \* [-\w\.]
NotNewline == Chars \ {"\n"}           \* .

IsWord(c) == c \in Word

\* is lit a substring of d at position i
At(d, i, lit) ==
    /\ i + Len(lit) - 1 <= Len(d)
    /\ \A k \in 1..Len(lit) : d[i + k - 1] = lit[k]

\* the end of the longest run of characters of a class that starts at i:
\* the position after the run
RECURSIVE RunEnd(_, _, _)
RunEnd(d, i, class) ==
    IF i <= Len(d) /\ d[i] \in class THEN RunEnd(d, i + 1, class) ELSE i

\* lines 59, 165: re.sub(r'//.*', '', data), from position i on
RECURSIVE SubLineFrom(_, _)
SubLineFrom(d, i) ==
    IF i > Len(d) THEN << >>
    ELSE IF At(d, i, <<"/", "/">>)
         THEN SubLineFrom(d, RunEnd(d, i, NotNewline))
         ELSE <<d[i]>> \o SubLineFrom(d, i + 1)

SubLine(d) == SubLineFrom(d, 1)

\* the position of the first "*/" at or after j, 0 when there is none
RECURSIVE FirstClose(_, _)
FirstClose(d, j) ==
    IF j + 1 > Len(d) THEN 0
    ELSE IF At(d, j, <<"*", "/">>) THEN j ELSE FirstClose(d, j + 1)

\* where a match of /\*.*?\*/ that starts at i ends (the position after
\* it), 0 when there is none; without DOTALL '.' does not match a newline
BlockMatch(d, i, dotall) ==
    IF ~At(d, i, <<"/", "*">>) THEN 0
    ELSE LET j == FirstClose(d, i + 2)
         IN  IF j = 0 THEN 0
             ELSE IF dotall \/ \A k \in (i + 2)..(j - 1) : d[k] # "\n"
                  THEN j + 2
                  ELSE 0

\* re.sub(r'/\*.*?\*/', '', data, count, flags) from position i on, done
\* substitutions made so far; count = 0 puts no limit on them
RECURSIVE SubBlockFrom(_, _, _, _, _)
SubBlockFrom(d, i, dotall, count, done) ==
    IF i > Len(d) THEN << >>
    ELSE LET e == IF count = 0 \/ done < count
                  THEN BlockMatch(d, i, dotall) ELSE 0
         IN  IF e # 0
             THEN SubBlockFrom(d, e, dotall, count, done + 1)
             ELSE <<d[i]>> \o SubBlockFrom(d, i + 1, dotall, count, done)

SubBlock(d, dotall, count) == SubBlockFrom(d, 1, dotall, count, 0)

\* the value of re.DOTALL
RE_DOTALL == 16

\* lines 59-60: line comments first, then block comments with flags=DOTALL
SourceComments(d) == SubBlock(SubLine(d), TRUE, 0)

\* lines 164-165: re.DOTALL is passed in the position of count, flags is 0
HeaderComments(d) == SubLine(SubBlock(d, FALSE, RE_DOTALL))

\* a match of #include[\s]?["<]+([-\w\.]+)[">]+ starting at i: the
\* positions where the name starts and ends and where the match ends, or
\* << >>; consecutive classes are disjoint, so the longest runs decide
IncludeMatch(d, i) ==
    IF ~At(d, i, <<"#", "i", "n", "c", "l", "u", "d", "e">>) THEN << >>
    ELSE LET p  == IF i + 8 <= Len(d) /\ d[i + 8] \in Space
                   THEN i + 9 ELSE i + 8
             q1 == RunEnd(d, p, Open)
             q2 == RunEnd(d, q1, NameChar)
             q3 == RunEnd(d, q2, Close)
         IN  IF q1 > p /\ q2 > q1 /\ q3 > q2 THEN <<q1, q2, q3>> ELSE << >>

\* lines 64-66, 169-171: includes_re.findall(self.data)
RECURSIVE FindIncludesFrom(_, _)
FindIncludesFrom(d, i) ==
    IF i > Len(d) THEN << >>
    ELSE LET m == IncludeMatch(d, i)
         IN  IF m # << >>
             THEN <<SubSeq(d, m[1], m[2] - 1)>> \o FindIncludesFrom(d, m[3])
             ELSE FindIncludesFrom(d, i + 1)

FindIncludes(d) == FindIncludesFrom(d, 1)

\* a match of [\W](\w+)[\W] starting at i: the position after the word,
\* which is the non-word character the match consumes, or 0
TagMatch(d, i) ==
    IF IsWord(d[i]) \/ i + 1 > Len(d) \/ ~IsWord(d[i + 1]) THEN 0
    ELSE LET j == RunEnd(d, i + 1, Word)
         IN  IF j <= Len(d) THEN j ELSE 0

\* lines 68-69: tagname_re.findall(self.data), from position i on; the
\* search resumes after the non-word character that ended the match
RECURSIVE FindTagsFrom(_, _)
FindTagsFrom(d, i) ==
    IF i > Len(d) THEN << >>
    ELSE LET j == TagMatch(d, i)
         IN  IF j # 0
             THEN <<SubSeq(d, i + 1, j - 1)>> \o FindTagsFrom(d, j + 1)
             ELSE FindTagsFrom(d, i + 1)

Range(q) == {q[i] : i \in DOMAIN q}

\* a < b for two strings, as Python compares them
RECURSIVE StrLess(_, _)
StrLess(a, b) ==
    IF b = << >> THEN FALSE
    ELSE IF a = << >> THEN TRUE
    ELSE IF Ascii[Head(a)] # Ascii[Head(b)] THEN Ascii[Head(a)] < Ascii[Head(b)]
    ELSE StrLess(Tail(a), Tail(b))

\* lines 71-72: list(tag_set) followed by sort()
RECURSIVE SortedList(_)
SortedList(S) ==
    IF S = {} THEN << >>
    ELSE LET m == CHOOSE x \in S : \A y \in S \ {x} : StrLess(x, y)
         IN  <<m>> \o SortedList(S \ {m})

\* lines 54-73
SourceRead ==
    /\ pc = "read"
    /\ LET data    == SourceComments(raw)
           tag_lst == SortedList(Range(FindTagsFrom(data, 1)))
       IN  rd' = [kind        |-> "Source",
                  data        |-> data,
                  include_lst |-> FindIncludes(data),
                  tag_lst     |-> tag_lst,
                  tag_set     |-> Range(tag_lst)]
    /\ pc' = "loaded"
    /\ UNCHANGED raw
    /\ UNCHANGED <<fsVars, stack, result, calls, returns, claimed, reportVars,
                   tagVars>>

\* lines 159-171; tag_lst and tag_set keep the values of __init__
HeaderRead ==
    /\ pc = "read"
    /\ LET data == HeaderComments(raw)
       IN  rd' = [kind        |-> "Header",
                  data        |-> data,
                  include_lst |-> FindIncludes(data),
                  tag_lst     |-> << >>,
                  tag_set     |-> {}]
    /\ pc' = "loaded"
    /\ UNCHANGED raw
    /\ UNCHANGED <<fsVars, stack, result, calls, returns, claimed, reportVars,
                   tagVars>>

\* the lexemes the texts are put together from
Chunks ==
    { <<"/", "*">>, <<"*", "/">>, <<"/">>, <<"\n">>,
      <<"#", "i", "n", "c", "l", "u", "d", "e", " ", "\"", "x", ".", "h", "\"">>,
      <<"f", "o", "o">>, <<"B", "A", "R">> }

RECURSIVE Flatten(_)
Flatten(cs) == IF cs = << >> THEN << >> ELSE Head(cs) \o Flatten(Tail(cs))

\* the file about to be read holds any text of at most MaxChunks lexemes
InitRead ==
    /\ \E n \in 0..MaxChunks : \E cs \in [1..n -> Chunks] : raw = Flatten(cs)
    /\ rd = None
    /\ pc = "read"
    /\ headers = {}
    /\ sources = {}
    /\ include_lst = << >>
    /\ tag_set = << >>
    /\ stack = << >>
    /\ result = None
    /\ calls = << >>
    /\ returns = << >>
    /\ claimed = {}
    /\ IdleReport
    /\ IdleTags

NextRead ==
    \/ SourceRead
    \/ HeaderRead

SpecRead == InitRead /\ [][NextRead]_vars

(***************************************************************************)
(* Tag.parse_ctag (lines 285-325) and Header.create_tags (lines 173-201).  *)
(***************************************************************************)

\* the position of the first c in d, 0 when there is none
FirstIndex(d, c) ==
    IF \E i \in DOMAIN d : d[i] = c
    THEN CHOOSE i \in DOMAIN d : d[i] = c /\ \A j \in 1..(i - 1) : d[j] # c
    ELSE 0

\* d.split(sep)
RECURSIVE Split(_, _)
Split(d, sep) ==
    LET i == FirstIndex(d, sep)
    IN  IF i = 0 THEN <<d>>
        ELSE <<SubSeq(d, 1, i - 1)>> \o Split(SubSeq(d, i + 1, Len(d)), sep)

\* sep.join(parts)
RECURSIVE Join(_, _)
Join(parts, sep) ==
    IF parts = << >> THEN << >>
    ELSE IF Len(parts) = 1 THEN parts[1]
    ELSE parts[1] \o <<sep>> \o Join(Tail(parts), sep)

\* d.rstrip(chars)
RECURSIVE RStrip(_, _)
RStrip(d, chars) ==
    IF d # << >> /\ d[Len(d)] \in chars
    THEN RStrip(SubSeq(d, 1, Len(d) - 1), chars)
    ELSE d

\* lines 295-321; the operands of `is` are one-character strings, which
\* the interpreter keeps one object of each, so `is` decides as == does
KindOf(kind) ==
    CASE kind = <<"c">> -> "class"
      [] kind = <<"d">> -> "define"
      [] kind = <<"e">> -> "enumerator"
      [] kind = <<"f">> -> "function"
      [] kind = <<"F">> -> "file"
      [] kind = <<"g">> -> "enum_name"
      [] kind = <<"m">> -> "member"
      [] kind = <<"p">> -> "prototype"
      [] kind = <<"s">> -> "struct_tag"
      [] kind = <<"t">> -> "typedef"
      [] kind = <<"u">> -> "union"
      [] kind = <<"v">> -> "variable"
      [] OTHER -> ""

\* lines 272-278: the fields of a Tag before parse_ctag
EmptyTag(ctag) ==
    [ctag |-> ctag, name |-> NoText, path |-> NoText, file |-> NoText,
     addr |-> NoText, kind |-> None]

\* lines 285-325 with the name taken before the four fields are unpacked
TagOfNameFirst(ctag) ==
    LET fields == Split(ctag, "\t")
    IN  IF Len(fields) < 4
        THEN [tag |-> [EmptyTag(ctag) EXCEPT !.name = fields[1]],
              out |-> <<<<"Unable to parse:", ctag>>>>]
        ELSE [tag |-> [EmptyTag(ctag) EXCEPT !.name = fields[1],
                                             !.kind = KindOf(fields[4])],
              out |-> << >>]

\* lines 272-325, Tag(ctag): the object built and the lines printed.  The
\* unpacking of line 287 raises ValueError unless the slice has 4 elements
TagOf(ctag) ==
    LET fields == Split(ctag, "\t")
    IN  IF Len(fields) < 4
        THEN [tag |-> EmptyTag(ctag),
              out |-> <<<<"Unable to parse:", ctag>>>>]
        ELSE LET file_parts == Split(fields[2], "/")
                 kind       == KindOf(fields[4])
             IN  [tag |-> [ctag |-> ctag,
                           name |-> fields[1],
                           path |-> Join(SubSeq(file_parts, 1,
                                                Len(file_parts) - 1), "/"),
                           file |-> file_parts[Len(file_parts)],
                           addr |-> RStrip(fields[3], {";", "\""}),
                           kind |-> kind],
                  out |-> IF kind = ""
                          THEN <<<<"ERROR", "Unknown kind:", fields[4]>>>>
                          ELSE << >>]

\* lines 188-193
valid_tag_types == {"define", "enumerator", "function", "typedef"}

\* lines 195-199: the loop over ctag_lst, from the state h of the header
RECURSIVE TagLoop(_, _)
TagLoop(ctag_lst, h) ==
    IF ctag_lst = << >> THEN h
    ELSE LET ctag == Head(ctag_lst)
         IN  IF ctag = << >> THEN TagLoop(Tail(ctag_lst), h)
             ELSE LET t == TagOf(ctag)
                  IN  TagLoop(Tail(ctag_lst),
                        [h EXCEPT
                           !.tags = Append(@, t.tag),
                           !.out = @ \o t.out,
                           !.tag_lst = IF t.tag.kind \in valid_tag_types
                                       THEN Append(@, t.tag.name) ELSE @])

\* lines 185-186
CtagLst(data) ==
    SelectSeq(Split(data, "\n"), LAMBDA d : ~At(d, 1, <<"!", "_">>))

\* lines 173-201; tags holds the Tag objects the loop built, out the lines
\* it printed
CreateTags ==
    /\ pc = "ctags"
    /\ LET h == TagLoop(CtagLst(tagfile),
                        [tag_lst |-> << >>, tags |-> << >>, out |-> << >>])
       IN  hdr' = [tag_lst |-> h.tag_lst,
                   tag_set |-> Range(h.tag_lst),
                   tags    |-> h.tags,
                   out     |-> h.out]
    /\ pc' = "tagged"
    /\ UNCHANGED tagfile
    /\ UNCHANGED <<fsVars, stack, result, calls, returns, claimed, reportVars,
                   readVars>>

\* the lines ctags can be made to write: a name, the file, the address,
\* the kind and one extension field, cut after the first n fields
TagNames  == { <<"F", "O", "O">>, <<"!", "_", "T">> }
TagKinds  == { <<"d">>, <<"v">>, <<"?">> }
TagLine(name, kind, n) ==
    Join(SubSeq(<<name, <<"i", "/", "b", ".", "h">>, <<"7", ";", "\"">>,
                  kind, <<"x">>>>, 1, n), "\t")
TagLines ==
    { TagLine(name, kind, n) : name \in TagNames, kind \in TagKinds, n \in 1..5 }

\* every line of the file ends with a newline
RECURSIVE TagFileOf(_)
TagFileOf(lines) ==
    IF lines = << >> THEN << >>
    ELSE Head(lines) \o <<"\n">> \o TagFileOf(Tail(lines))

\* the tags file holds at most MaxLines lines
InitTags ==
    /\ \E n \in 0..MaxLines : \E ls \in [1..n -> TagLines] :
          tagfile = TagFileOf(ls)
    /\ hdr = None
    /\ pc = "ctags"
    /\ headers = {}
    /\ sources = {}
    /\ include_lst = << >>
    /\ tag_set = << >>
    /\ stack = << >>
    /\ result = None
    /\ calls = << >>
    /\ returns = << >>
    /\ claimed = {}
    /\ IdleReport
    /\ IdleRead

NextTags == CreateTags

SpecTags == InitTags /\ [][NextTags]_vars

(***************************************************************************)
(* Claims about find_used_headers (SpecClosure, FairClosure).              *)
(***************************************************************************)

CycleAB ==
    /\ headers = {"a.h", "b.h"}
    /\ include_lst["a.h"] = {"b.h"}
    /\ include_lst["b.h"] = {"a.h"}
    /\ include_lst["x.c"] = include_lst["a.h"]

\* C2 as stated: with a.h including b.h and b.h including a.h, resolving
\* the include list of a.h against {a.h, b.h} returns exactly {b.h}.
C2_Original == (CycleAB /\ pc = "done") => result = {"b.h"}

\* C2, amended: the same call terminates and returns {a.h, b.h}.
C2_CycleTerminates ==
    (CycleAB /\ pc = "idle") ~> (pc = "done" /\ result = {"a.h", "b.h"})

C2_Witness == CycleAB /\ pc = "done" /\ result = {"a.h", "b.h"}

\* C3: every call returns exactly the headers of its universe that are
\* reachable from its start list through headers of that universe, in every
\* order in which the for loop may enumerate used_set.
C3_ClosureComplete ==
    /\ \A i \in 1..Len(returns) :
          returns[i].ret = Reach(returns[i].lst, returns[i].start)
    /\ pc = "done" => result = Reach(include_lst["x.c"], headers)

\* two directly named headers, the second of them processed after the
\* first one's recursion has shrunk remaining_set, and a header reached
\* only transitively
C3_Witness ==
    /\ pc = "done"
    /\ Cardinality(UsedSet(include_lst["x.c"], headers)) = 2
    /\ Len(calls) >= 2
    /\ result = headers
    /\ Cardinality(headers) = 3

\* C10: no header is recursed on twice, every recursive call gets a
\* universe strictly smaller than its caller's, and no header claimed
\* before a recursive call is in the universe of that call.
C10_TraversedOnce ==
    /\ \A i, j \in 1..Len(calls) :
          calls[i].header = calls[j].header => i = j
    /\ \A i \in 1..Len(calls) :
          /\ calls[i].universe \subseteq calls[i].caller
          /\ calls[i].universe # calls[i].caller
          /\ calls[i].universe \cap calls[i].claimed = {}

\* all three headers were recursed on although they include each other
C10_Witness ==
    /\ pc = "done"
    /\ Len(calls) = 3
    /\ \A h \in headers : \E g \in headers : h \in include_lst[g] /\ g # h
    /\ \E i \in 1..Len(calls) : calls[i].claimed \ calls[i].caller = {}
                                /\ calls[i].claimed # {}

(***************************************************************************)
(* Claims about the reports (SpecReport).                                  *)
(***************************************************************************)
Counterparts(f) == {r.filename : r \in report[f]}

UsedTagSetOf(f) == UnionOf(tag_set, Counterparts(f)) \cap tag_set[f]

\* C4: in every row of every report the utility lies between 0 and 1 and
\* is |counterpart.tag_set & used_tag_set| / |used_tag_set|; it is 0 when
\* used_tag_set is empty and when the counterpart shares no tag with it.
C4_UtilityBounds ==
    \A f \in DOMAIN report : \A r \in report[f] :
        LET used   == UsedTagSetOf(f)
            shared == tag_set[r.filename] \cap used
            u      == r.utility
        IN  /\ u.den > 0
            /\ 0 <= u.num
            /\ u.num <= u.den
            /\ used # {} =>
                 u.num * Cardinality(used) = Cardinality(shared) * u.den
            /\ used = {} => u.num = 0
            /\ shared = {} => u.num = 0

\* one report has a row strictly between 0 and 1 and a row that shares no
\* tag; another has rows although its used_tag_set is empty
C4_Witness ==
    /\ \E f \in DOMAIN report : \E r1, r2 \in report[f] :
          /\ 0 < r1.utility.num
          /\ r1.utility.num < r1.utility.den
          /\ tag_set[r2.filename] \cap UsedTagSetOf(f) = {}
          /\ r2.utility.num = 0
    /\ \E g \in DOMAIN report : report[g] # {} /\ UsedTagSetOf(g) = {}

\* C5: a row of a source's report is 'direct' exactly when the header is
\* named in the source's include list and blank otherwise; a row of a
\* header's report is 'direct' exactly when the header is named in the
\* include list of the row's source.
C5_DirectIndirect ==
    \A f \in DOMAIN report : \A r \in report[f] :
        /\ r.type \in {"direct", ""}
        /\ f \in sources =>
             (r.type = "direct" <=> r.filename \in include_lst[f])
        /\ f \in headers =>
             (r.type = "direct" <=> f \in include_lst[r.filename])

\* a source's report and a header's report each with a direct and an
\* indirect row
C5_Witness ==
    /\ \E f \in DOMAIN report \cap sources : \E r1, r2 \in report[f] :
          r1.type = "direct" /\ r2.type = ""
    /\ \E f \in DOMAIN report \cap headers : \E r1, r2 \in report[f] :
          r1.type = "direct" /\ r2.type = ""

\* C6: the sources in a header's report are exactly the sources whose
\* header closure contains the header, so a header has a row in a source's
\* report exactly when the source has a row in the header's report.
C6_ReverseResolution ==
    \A h \in DOMAIN report \cap headers :
        /\ Counterparts(h) =
             {s \in sources : h \in Reach(include_lst[s], headers)}
        /\ \A s \in DOMAIN report \cap sources :
             h \in Counterparts(s) <=> s \in Counterparts(h)

\* a header's report with a source that reaches it only through another
\* header, while the other source does not reach it
C6_Witness ==
    \E h \in DOMAIN report \cap headers :
        /\ Cardinality(Counterparts(h)) = 1
        /\ \A s \in Counterparts(h) :
             h \notin include_lst[s] /\ h \in Counterparts(s)

(***************************************************************************)
(* Claims about read() (SpecRead).                                         *)
(***************************************************************************)

\* the text without its comments, as a C lexer delimits them: "//" to the
\* end of the line, "/*" to the next "*/"; a "/*" that is never closed is
\* left in place
RECURSIVE StripComments(_, _)
StripComments(d, i) ==
    IF i > Len(d) THEN << >>
    ELSE IF At(d, i, <<"/", "/">>)
         THEN StripComments(d, RunEnd(d, i, NotNewline))
         ELSE LET e == BlockMatch(d, i, TRUE)
              IN  IF e # 0 THEN StripComments(d, e)
                  ELSE <<d[i]>> \o StripComments(d, i + 1)

\* C7: read() removes the line comments and the block comments, also the
\* block comments that span lines, so that an include directive inside a
\* comment is never in the include list of the file.
C7_CommentsRemoved ==
    pc = "loaded" =>
        \A k \in DOMAIN rd.include_lst :
            rd.include_lst[k] \in Range(FindIncludes(StripComments(raw, 1)))

\* the maximal runs of word characters of d with a non-word character
\* right before and right after
BoundedRuns(d) ==
    { SubSeq(d, a, b) : <<a, b>> \in
        { ab \in (2..Len(d)) \X (2..Len(d)) :
            /\ ab[1] <= ab[2]
            /\ ab[2] < Len(d)
            /\ \A k \in ab[1]..ab[2] : IsWord(d[k])
            /\ ~IsWord(d[ab[1] - 1])
            /\ ~IsWord(d[ab[2] + 1]) } }

\* C8: the tag_set of a Source holds every run of word characters of the
\* normalized text that has a non-word character on both sides.
C8_SourceIdentifiers ==
    (pc = "loaded" /\ rd.kind = "Source") => BoundedRuns(rd.data) \subseteq rd.tag_set

(***************************************************************************)
(* Claims about create_tags (SpecTags).                                    *)
(***************************************************************************)
FieldCount(line) == 1 + Cardinality({i \in DOMAIN line : line[i] = "\t"})

FirstField(line) ==
    SubSeq(line, 1, IF FirstIndex(line, "\t") = 0 THEN Len(line)
                    ELSE FirstIndex(line, "\t") - 1)

\* the lines of the file that are tag lines: not empty, not metadata
TagLinesOf(data) ==
    SelectSeq(Split(data, "\n"),
              LAMBDA d : d # << >> /\ ~(Len(d) >= 2 /\ d[1] = "!" /\ d[2] = "_"))

Count(q, P(_)) == Cardinality({i \in DOMAIN q : P(q[i])})

\* C9: every tag line of the batch is handed to the parser, whatever came
\* before it; a line with fewer than four fields is reported once and
\* yields no symbol record and no name, a line with four or more yields
\* one symbol record under its name.
C9_MalformedLines ==
    pc = "tagged" =>
      LET lines == TagLinesOf(tagfile)
      IN  /\ Len(hdr.tags) = Len(lines)
          /\ \A k \in DOMAIN lines :
                /\ hdr.tags[k].ctag = lines[k]
                /\ FieldCount(lines[k]) < 4 =>
                     /\ hdr.tags[k].name = NoText
                     /\ hdr.tags[k].kind = None
                /\ FieldCount(lines[k]) >= 4 =>
                     hdr.tags[k].name = FirstField(lines[k])
          /\ \A line \in Range(lines) :
                FieldCount(line) < 4 =>
                  Count(hdr.out, LAMBDA o : o = <<"Unable to parse:", line>>)
                    = Count(lines, LAMBDA l : l = line)
          /\ Count(hdr.out, LAMBDA o : o[1] = "Unable to parse:")
               = Count(lines, LAMBDA l : FieldCount(l) < 4)
          /\ Count(hdr.tags, LAMBDA t : t.name # NoText)
               = Count(lines, LAMBDA l : FieldCount(l) >= 4)
          /\ Len(hdr.tag_lst) <= Count(lines, LAMBDA l : FieldCount(l) >= 4)
          /\ hdr.tag_set \subseteq
               {FirstField(l) : l \in {m \in Range(lines) : FieldCount(m) >= 4}}

\* a 2-field line between two well-formed lines: two symbol records, one
\* reported failure, both names in the identifier set
C9_Witness ==
    /\ pc = "tagged"
    /\ Len(hdr.tags) = 3
    /\ FieldCount(hdr.tags[2].ctag) = 2
    /\ hdr.tags[1].name # NoText
    /\ hdr.tags[3].name # NoText
    /\ Len(hdr.tag_lst) = 2
    /\ Count(hdr.out, LAMBDA o : o[1] = "Unable to parse:") = 1

====
